---- MODULE Spec2Model ----
(***************************************************************************)
(* Dependency-closure engine of repo-merger (merger_toolkit.collector):    *)
(* the analyzers' memoized analyze_file, the reverse caller search, the    *)
(* forward closure collector and the formatter of CodeCollector.           *)
(*                                                                         *)
(* Text is modelled at the granularity the code reads it: a file is a      *)
(* sequence of lines, a line is one statement form, and the two regular    *)
(* expressions of core.py are operators deciding a match on such a line.   *)
(* A function name or key is the record [cls, name]: the string "name"     *)
(* when cls = "" and the string "cls.name" otherwise.                      *)
(***************************************************************************)
EXTENDS Naturals, Sequences, FiniteSets, TLC

VARIABLES
    project,              \* the files on disk under project_root (unchanged by the engine)
    inventory,            \* the order in which os.walk lists the source files
    pc,                   \* position of the caller: idle, reverse, forward, done, raised
    calls,                \* number of collect invocations started on this instance
    start,                \* (start_file_abs, start_function) of the running invocation
    collected_code,       \* CodeCollector.collected_code: path -> set of snippets
    processed_items,      \* CodeCollector.processed_items: set of (path, key)
    py_cache,             \* PythonAnalyzer._cache (paths holding a cached result)
    ts_cache,             \* TypeScriptAnalyzer._cache
    parses,               \* per analyzer and path: how often the file was read and parsed
    search_queue,         \* reverse search: names queued for the next level
    current_targets,      \* reverse search: names of the running level still to scan
    level,                \* reverse search: level counter
    processed_functions,  \* reverse search: names already scanned
    all_specific_callers, \* reverse search: result set of (path, key)
    all_context_files,    \* reverse search: result set of paths
    scans,                \* per name: how often _find_direct_callers ran in this search
    queue,                \* forward traversal: deque of (path, key)
    first_dequeued,       \* first (path, key) marked processed in this invocation
    enqueued_processed,   \* whether an append put an already processed pair in the queue
    output,               \* text returned by the last finished invocation
    history,              \* finished invocations: start pair, output, state before
    beat                  \* alternates at every step a running invocation takes

vars == <<project, inventory, pc, calls, start, collected_code, processed_items,
          py_cache, ts_cache, parses, search_queue, current_targets, level,
          processed_functions, all_specific_callers, all_context_files, scans,
          queue, first_dequeued, enqueued_processed, output, history, beat>>

---------------------------------------------------------------------------
(* Bounds of the model *)

MaxCalls == 2
ChainLen == 60

(* The level cap of the reverse search *)
MaxLevel == 50

---------------------------------------------------------------------------
(* Generic helpers *)

Perms(S) == {s \in [1..Cardinality(S) -> S] : \A i, j \in DOMAIN s : i # j => s[i] # s[j]}

Contains(s, e) == \E i \in DOMAIN s : s[i] = e

RECURSIVE SetToSeq(_)
SetToSeq(S) == IF S = {} THEN <<>>
               ELSE LET e == CHOOSE e \in S : TRUE IN <<e>> \o SetToSeq(S \ {e})

---------------------------------------------------------------------------
(* Names, lines and files *)

Name(cls, name) == [cls |-> cls, name |-> name]
Bare(name) == Name("", name)

\* str.endswith("." + target) on keys of at most one dot
EndsWithDot(key, target) == target.cls = "" /\ key.cls # "" /\ key.name = target.name

\* func_key == target_function or func_key.endswith(f".{target_function}")
KeyMatches(key, target) == key = target \/ EndsWithDot(key, target)

(* Line forms.  kind:
     "def"      def <name>(...):            (free function or method)
     "async"    async def <name>(...):
     "function" function <name>(...) {      (the other language family)
     "call"     <module>.<name>(...)  or  <name>(...)  when module = ""
     "import"   from <module> import <name>
     "comment"  # <name>
     "pass"     a line naming nothing                                      *)
Line(kind, module, name) == [kind |-> kind, module |-> module, name |-> name]
DefLine(name) == Line("def", "", name)
AsyncLine(name) == Line("async", "", name)
FunctionLine(name) == Line("function", "", name)
CallLine(module, name) == Line("call", module, name)
ImportLine(module, name) == Line("import", module, name)
CommentLine(name) == Line("comment", "", name)
PassLine == Line("pass", "", "")

\* A pattern that matches the name only where no receiver precedes it
SearchMatchNoReceiver(line, target) ==
    /\ target.cls = ""
    /\ line.kind # "pass"
    /\ line.name = target.name
    /\ line.module = ""

\* re.compile(r'\b' + re.escape(target_function) + r'\b').search(line)
SearchMatch(line, target) ==
    IF target.cls = ""
    THEN /\ line.kind # "pass"
         /\ \/ line.name = target.name
            \/ line.kind \in {"call", "import"} /\ line.module = target.name
    ELSE line.kind = "call" /\ line.module = target.cls /\ line.name = target.name

\* re.compile(r'^\s*def\s+' + re.escape(target_function) + r'\b').match(line)
DefMatch(line, target) ==
    line.kind = "def" /\ target.cls = "" /\ line.name = target.name

(* A file: path, language family by extension ("py", "ts", "none"), whether
   it lies under project_root, what happens when it is read and parsed
   (status), its lines, and the function definitions a parser finds in it
   (defs, in source order: class, name, first and last line). *)
File(path, lang, inroot, status, lines, defs) ==
    [path |-> path, lang |-> lang, inroot |-> inroot, status |-> status,
     lines |-> lines, defs |-> defs]

Def(cls, name, first, last) == [cls |-> cls, name |-> name, start |-> first, end |-> last]

PyFailures == {"parse_error", "unreadable"}
TsFailures == {"no_parser", "no_node", "nonzero_exit", "bad_json", "error_field", "unreadable"}

Paths(P) == {P[i].path : i \in DOMAIN P}
HasFile(P, path) == path \in Paths(P)
FileAt(P, path) == P[CHOOSE i \in DOMAIN P : P[i].path = path]

---------------------------------------------------------------------------
(* Analyzers *)

\* The empty result {} and a result holding a function table
Empty == [empty |-> TRUE, raised |-> FALSE, table |-> <<>>]
Result(table) == [empty |-> FALSE, raised |-> FALSE, table |-> table]

\* The definition whose body directly holds line i: the visitor's
\* _current_function_name while it visits that line (innermost definition)
Innermost(f, i) ==
    LET enc == {k \in DOMAIN f.defs : f.defs[k].start <= i /\ i <= f.defs[k].end}
    IN IF enc = {} THEN 0
       ELSE CHOOSE k \in enc : \A j \in enc : f.defs[j].start <= f.defs[k].start

\* CodeVisitor.visit_Call: the call sites of definition k, in source order
RECURSIVE CallsFrom(_, _, _)
CallsFrom(f, k, i) ==
    IF i > f.defs[k].end THEN <<>>
    ELSE (IF f.lines[i].kind = "call" /\ Innermost(f, i) = k
          THEN <<[name |-> f.lines[i].name, module |-> f.lines[i].module]>>
          ELSE <<>>) \o CallsFrom(f, k, i + 1)

\* CodeVisitor.visit_FunctionDef / visit_AsyncFunctionDef and the tables
\* analyze_file builds from function_details: one entry per definition, in
\* the order the visitor meets them
FunctionTable(f) ==
    [k \in DOMAIN f.defs |->
        [key |-> Name(f.defs[k].cls, f.defs[k].name),
         start |-> f.defs[k].start,
         end |-> f.defs[k].end,
         class_name |-> f.defs[k].cls,
         function_name |-> f.defs[k].name,
         source |-> SubSeq(f.lines, f.defs[k].start, f.defs[k].end),
         calls |-> CallsFrom(f, k, f.defs[k].start)]]

\* An analyzer that lets the failure of a parse escape to its caller
PyResultRaising(P, path) ==
    IF HasFile(P, path) /\ FileAt(P, path).lang = "py" /\ FileAt(P, path).status = "ok"
    THEN [empty |-> FALSE, raised |-> FALSE, table |-> FunctionTable(FileAt(P, path))]
    ELSE [empty |-> TRUE, raised |-> TRUE, table |-> <<>>]

\* What PythonAnalyzer.analyze_file computes for a path when nothing is
\* cached: the tables of a file that reads and parses as Python, {} otherwise
\* (a missing file, an unreadable one, a syntax error; a file of the other
\* language family that defines a function is a syntax error for ast.parse)
PyResult(P, path) ==
    IF ~HasFile(P, path) THEN Empty
    ELSE LET f == FileAt(P, path)
         IN IF f.lang = "py" /\ f.status = "ok" THEN Result(FunctionTable(f)) ELSE Empty

\* The response of the external parser (ts_parser.js) for a file it parses,
\* in the analyzer contract's shape
TsParse(f) == FunctionTable(f)

\* What TypeScriptAnalyzer.analyze_file computes for a path when nothing is
\* cached: every failure of the external parser gives {}
TsResult(P, path) ==
    IF ~HasFile(P, path) THEN Empty
    ELSE LET f == FileAt(P, path)
         IN IF f.lang = "ts" /\ f.status = "ok" THEN Result(TsParse(f)) ELSE Empty

\* CodeCollector._get_analyzer_for_file: by extension
GetAnalyzerForFile(P, path) ==
    IF ~HasFile(P, path) THEN "python"
    ELSE CASE FileAt(P, path).lang = "py" -> "python"
           [] FileAt(P, path).lang = "ts" -> "typescript"
           [] OTHER -> "none"

\* analyzer.analyze_file(path): the cached result is the result of the one
\* parse that stored it, and the project does not change
AnalyzeFile(P, analyzer, path) ==
    IF analyzer = "python" THEN PyResult(P, path)
    ELSE IF analyzer = "typescript" THEN TsResult(P, path)
    ELSE Empty

\* The keys of a result's function table, and the entry of a key
Keys(analysis) == {analysis.table[k].key : k \in DOMAIN analysis.table}
Entry(analysis, key) ==
    analysis.table[CHOOSE k \in DOMAIN analysis.table : analysis.table[k].key = key]

(* One call of analyze_file on the caches and the parse counters: a cached
   path returns at once; otherwise the file is read and parsed (or the
   parser process is run), and the result is stored only when the parse
   succeeded. *)
Memo(P, c, call) ==
    LET cache == IF call.analyzer = "python" THEN c.py ELSE c.ts
        res == AnalyzeFile(P, call.analyzer, call.path)
        key == <<call.analyzer, call.path>>
    IN IF call.path \in cache THEN c
       ELSE [py |-> IF call.analyzer = "python" /\ ~res.empty THEN c.py \cup {call.path} ELSE c.py,
             ts |-> IF call.analyzer = "typescript" /\ ~res.empty THEN c.ts \cup {call.path} ELSE c.ts,
             parses |-> [q \in DOMAIN c.parses \cup {key} |->
                            IF q = key
                            THEN (IF key \in DOMAIN c.parses THEN c.parses[key] ELSE 0) + 1
                            ELSE c.parses[q]]]

RECURSIVE MemoAll(_, _, _)
MemoAll(P, c, callseq) ==
    IF callseq = <<>> THEN c
    ELSE MemoAll(P, Memo(P, c, Head(callseq)), Tail(callseq))

ACall(analyzer, path) == [analyzer |-> analyzer, path |-> path]

---------------------------------------------------------------------------
(* Source inventory *)

\* CodeCollector._find_all_source_files lists the files under project_root
\* that have a known extension; inv is the order os.walk yields them in
IsSourceFile(f) == f.inroot /\ f.lang \in {"py", "ts"}
SourcePaths(P) == {P[i].path : i \in {j \in DOMAIN P : IsSourceFile(P[j])}}

---------------------------------------------------------------------------
(* Reverse caller search *)

\* The lines of a file shortlisted for a name (call_locations)
CallLocations(f, target) ==
    {i \in DOMAIN f.lines : SearchMatch(f.lines[i], target) /\ ~DefMatch(f.lines[i], target)}

\* A classification by the last key in table order whose range holds the line
EnclosingEntryLast(analysis, line_num) ==
    LET enc == {k \in DOMAIN analysis.table :
                    analysis.table[k].start <= line_num /\ line_num <= analysis.table[k].end}
    IN IF enc = {} THEN 0 ELSE CHOOSE k \in enc : \A j \in enc : k >= j

\* The first key in table order whose range holds the line, 0 if none
EnclosingEntry(analysis, line_num) ==
    LET enc == {k \in DOMAIN analysis.table :
                    analysis.table[k].start <= line_num /\ line_num <= analysis.table[k].end}
    IN IF enc = {} THEN 0 ELSE CHOOSE k \in enc : \A j \in enc : k <= j

\* Whether _find_direct_callers reaches analyze_file for this file
ScanAnalyzes(f, target) == f.status # "unreadable" /\ CallLocations(f, target) # {}

\* A scan that records a file with shortlisted lines and no analysis as a
\* context file
FileCallersKeepsFailed(P, path, target) ==
    LET f == FileAt(P, path)
        analysis == AnalyzeFile(P, GetAnalyzerForFile(P, path), path)
        locs == IF ScanAnalyzes(f, target) THEN CallLocations(f, target) ELSE {}
        inside == {i \in locs : EnclosingEntry(analysis, i) # 0}
    IN [specific |-> {<<path, analysis.table[EnclosingEntry(analysis, i)].key>> : i \in inside},
        context |-> IF locs \ inside # {} THEN {path} ELSE {}]

\* What one file adds to the results of _find_direct_callers
FileCallers(P, path, target) ==
    LET f == FileAt(P, path)
        analysis == AnalyzeFile(P, GetAnalyzerForFile(P, path), path)
        locs == IF ScanAnalyzes(f, target) /\ ~analysis.empty THEN CallLocations(f, target) ELSE {}
        inside == {i \in locs : EnclosingEntry(analysis, i) # 0}
    IN [specific |-> {<<path, analysis.table[EnclosingEntry(analysis, i)].key>> : i \in inside},
        context |-> IF locs \ inside # {} THEN {path} ELSE {}]

\* CodeCollector._find_direct_callers
FindDirectCallers(P, inv, target) ==
    [specific |-> UNION {FileCallers(P, inv[i], target).specific : i \in DOMAIN inv},
     context |-> UNION {FileCallers(P, inv[i], target).context : i \in DOMAIN inv}]

\* The analyze_file calls of one _find_direct_callers, in inventory order
RECURSIVE ScanCalls(_, _, _, _)
ScanCalls(P, inv, target, i) ==
    IF i > Len(inv) THEN <<>>
    ELSE (IF ScanAnalyzes(FileAt(P, inv[i]), target)
          THEN <<ACall(GetAnalyzerForFile(P, inv[i]), inv[i])>> ELSE <<>>)
         \o ScanCalls(P, inv, target, i + 1)

\* The locals of _find_callers_and_contexts_recursive before its loop
RevInit(target) ==
    [search_queue |-> <<target>>, current_targets |-> <<>>, level |-> 0,
     processed_functions |-> {}, all_specific_callers |-> {}, all_context_files |-> {}]

\* A loop that starts one level more than the cap
RevLoopGuardInclusive(r) == r.search_queue # <<>> /\ r.level <= MaxLevel

\* while search_queue and level < 50
RevLoopGuard(r) == r.search_queue # <<>> /\ r.level < MaxLevel

\* The head of one iteration of the while loop
RevBeginLevel(r) ==
    [r EXCEPT !.level = r.level + 1, !.current_targets = r.search_queue, !.search_queue = <<>>]

\* for file_path, func_name in specific_callers: the keys not yet processed,
\* in the order the set is iterated in
RECURSIVE NextFrontier(_, _)
NextFrontier(order, processed) ==
    IF order = <<>> THEN <<>>
    ELSE (IF Head(order)[2] \notin processed THEN <<Head(order)[2]>> ELSE <<>>)
         \o NextFrontier(Tail(order), processed)

\* An inner loop without the processed_functions test
RevSkipsNever(r) == FALSE

\* Whether the body of the inner for loop skips the head of current_targets
RevSkips(r) == Head(r.current_targets) \in r.processed_functions

\* An iteration that does not add the name to processed_functions
RevExpandForgets(P, inv, r, order) ==
    LET found == FindDirectCallers(P, inv, Head(r.current_targets))
    IN IF RevSkips(r) THEN [r EXCEPT !.current_targets = Tail(r.current_targets)]
       ELSE [r EXCEPT !.current_targets = Tail(r.current_targets),
                      !.all_specific_callers = r.all_specific_callers \cup found.specific,
                      !.all_context_files = r.all_context_files \cup found.context,
                      !.search_queue = r.search_queue \o NextFrontier(order, r.processed_functions)]

\* One iteration of the inner for loop, for the head of current_targets;
\* order lists the specific callers found as the set is iterated
RevExpand(P, inv, r, order) ==
    LET current_target == Head(r.current_targets)
        found == FindDirectCallers(P, inv, current_target)
        processed == r.processed_functions \cup {current_target}
    IN IF RevSkips(r) THEN [r EXCEPT !.current_targets = Tail(r.current_targets)]
       ELSE [r EXCEPT !.current_targets = Tail(r.current_targets),
                      !.processed_functions = processed,
                      !.all_specific_callers = r.all_specific_callers \cup found.specific,
                      !.all_context_files = r.all_context_files \cup found.context,
                      !.search_queue = r.search_queue \o NextFrontier(order, processed)]

\* CodeCollector._find_callers_and_contexts_recursive, run to its return
\* with every set iterated in one fixed order
RECURSIVE RunReverse(_, _, _)
RunReverse(P, inv, r) ==
    IF r.current_targets # <<>>
    THEN RunReverse(P, inv, RevExpand(P, inv, r,
            IF RevSkips(r) THEN <<>>
            ELSE SetToSeq(FindDirectCallers(P, inv, Head(r.current_targets)).specific)))
    ELSE IF RevLoopGuard(r) THEN RunReverse(P, inv, RevBeginLevel(r))
    ELSE r

---------------------------------------------------------------------------
(* Forward closure collector *)

\* A seed set without the specific callers
ItemsToAddNoCallers(P, start_pair, specific_callers, context_files) ==
    {start_pair}
    \cup UNION {{<<cf, key>> : key \in Keys(AnalyzeFile(P, "python", cf))} : cf \in context_files}

\* collect, lines 203-220: the set items_to_add
ItemsToAdd(P, start_pair, specific_callers, context_files) ==
    {start_pair} \cup specific_callers
    \cup UNION {{<<cf, key>> : key \in Keys(AnalyzeFile(P, "python", cf))} : cf \in context_files}

\* A seed list in the order the set is iterated in, unsorted
SeedOrdersUnsorted(items, start_pair) == Perms(items)

\* sorted(list(items_to_add), key=lambda x: x != start): the start pair
\* first, the others in the order the set is iterated in
SeedOrders(items, start_pair) == {<<start_pair>> \o p : p \in Perms(items \ {start_pair})}

\* The def-line fallback of _find_definition_grep for one file
FallbackFinds(f, target) ==
    /\ f.status # "unreadable"
    /\ \E i \in DOMAIN f.lines : DefMatch(f.lines[i], target)

\* What one file adds to the locations of _find_definition_grep
FileDefinitions(P, path, target) ==
    LET analysis == AnalyzeFile(P, "python", path)
        hits == SelectSeq(analysis.table, LAMBDA e : KeyMatches(e.key, target))
        located == [k \in DOMAIN hits |-> <<path, hits[k].key>>]
    IN located \o (IF FallbackFinds(FileAt(P, path), target) /\ ~Contains(located, <<path, target>>)
                   THEN <<(<<path, target>>)>> ELSE <<>>)

\* CodeCollector._find_definition_grep
RECURSIVE FindDefinitionGrepFrom(_, _, _, _)
FindDefinitionGrepFrom(P, inv, target, i) ==
    IF i > Len(inv) THEN <<>>
    ELSE FileDefinitions(P, inv[i], target) \o FindDefinitionGrepFrom(P, inv, target, i + 1)

\* A search that stops at the first file of the inventory with a definition
FindDefinitionGrepFirstFile(P, inv, target) ==
    LET hits == {i \in DOMAIN inv : FileDefinitions(P, inv[i], target) # <<>>}
    IN IF hits = {} THEN <<>>
       ELSE FileDefinitions(P, inv[CHOOSE i \in hits : \A j \in hits : i <= j], target)

FindDefinitionGrep(P, inv, target) == FindDefinitionGrepFrom(P, inv, target, 1)

\* A lookup that keeps the last key ending in .name, not the first
LocalTargetLast(analysis, called) ==
    IF called \in Keys(analysis) THEN <<called>>
    ELSE LET suffix == {k \in DOMAIN analysis.table : EndsWithDot(analysis.table[k].key, called)}
         IN IF suffix = {} THEN <<>>
            ELSE <<analysis.table[CHOOSE k \in suffix : \A j \in suffix : k >= j].key>>

\* collect, lines 257-265: the key an unqualified call resolves to in the
\* caller's own file (<<>> when there is none)
LocalTarget(analysis, called) ==
    IF called \in Keys(analysis) THEN <<called>>
    ELSE LET suffix == {k \in DOMAIN analysis.table : EndsWithDot(analysis.table[k].key, called)}
         IN IF suffix = {} THEN <<>>
            ELSE <<analysis.table[CHOOSE k \in suffix : \A j \in suffix : k <= j].key>>

\* collect, lines 272-275: append the definitions neither processed nor queued
RECURSIVE AppendNew(_, _, _)
AppendNew(q, definitions, processed) ==
    IF definitions = <<>> THEN q
    ELSE AppendNew(IF Head(definitions) \notin processed /\ ~Contains(q, Head(definitions))
                   THEN Append(q, Head(definitions)) ELSE q,
                   Tail(definitions), processed)

\* A resolution that follows qualified calls only
ResolveCallQualifiedOnly(P, inv, file, analysis, call, q, processed) ==
    IF call.module = "" THEN q
    ELSE AppendNew(q, FindDefinitionGrep(P, inv, Bare(call.name)), processed)

\* A resolution that queues the called name in the caller's file when an
\* unqualified call has no definition there
ResolveCallKeepsUnresolved(P, inv, file, analysis, call, q, processed) ==
    IF call.module = ""
    THEN LET t == LocalTarget(analysis, Bare(call.name))
         IN Append(q, <<file, IF t = <<>> THEN Bare(call.name) ELSE t[1]>>)
    ELSE AppendNew(q, FindDefinitionGrep(P, inv, Bare(call.name)), processed)

\* collect, lines 255-275: what one call site appends to the queue
ResolveCall(P, inv, file, analysis, call, q, processed) ==
    IF call.module = ""
    THEN LET t == LocalTarget(analysis, Bare(call.name))
         IN IF t = <<>> THEN q ELSE Append(q, <<file, t[1]>>)
    ELSE AppendNew(q, FindDefinitionGrep(P, inv, Bare(call.name)), processed)

\* collect, line 250: the call sites of one function, in source order
RECURSIVE ResolveCalls(_, _, _, _, _, _, _)
ResolveCalls(P, inv, file, analysis, callseq, q, processed) ==
    IF callseq = <<>> THEN q
    ELSE ResolveCalls(P, inv, file, analysis, Tail(callseq),
                      ResolveCall(P, inv, file, analysis, Head(callseq), q, processed), processed)

\* A store that keeps only the last snippet of a file
AddSnippetOverwrite(code, file, snippet) ==
    [p \in DOMAIN code \cup {file} |-> IF p = file THEN {snippet} ELSE code[p]]

\* collected_code.setdefault(file, set()).add(snippet)
AddSnippet(code, file, snippet) ==
    [p \in DOMAIN code \cup {file} |->
        IF p = file THEN (IF file \in DOMAIN code THEN code[file] ELSE {}) \cup {snippet}
        ELSE code[p]]

\* Whether the dequeued pair is expanded: not processed before, and its key
\* is in the function table of its file
Expands(P, w) ==
    /\ Head(w.queue) \notin w.processed_items
    /\ Head(w.queue)[2] \in Keys(AnalyzeFile(P, GetAnalyzerForFile(P, Head(w.queue)[1]), Head(w.queue)[1]))

\* A loop body without the processed test of lines 235-236
ForwardStepRevisits(P, inv, w) ==
    LET current_file == Head(w.queue)[1]
        current_function_name == Head(w.queue)[2]
        rest == Tail(w.queue)
        processed == w.processed_items \cup {Head(w.queue)}
        analysis_result == AnalyzeFile(P, GetAnalyzerForFile(P, current_file), current_file)
    IN IF current_function_name \notin Keys(analysis_result)
       THEN [w EXCEPT !.queue = rest, !.processed_items = processed]
       ELSE [queue |-> ResolveCalls(P, inv, current_file, analysis_result,
                                    Entry(analysis_result, current_function_name).calls,
                                    rest, processed),
             processed_items |-> processed,
             collected_code |-> AddSnippet(w.collected_code, current_file,
                                           Entry(analysis_result, current_function_name).source)]

\* A loop body that collects, for a key absent from the function table, the
\* first function of the table whose key ends in that name
ForwardStepSuffix(P, inv, w) ==
    LET current_file == Head(w.queue)[1]
        rest == Tail(w.queue)
        processed == w.processed_items \cup {Head(w.queue)}
        analysis_result == AnalyzeFile(P, GetAnalyzerForFile(P, current_file), current_file)
        t == LocalTarget(analysis_result, Head(w.queue)[2])
    IN IF Head(w.queue) \in w.processed_items THEN [w EXCEPT !.queue = rest]
       ELSE IF t = <<>> THEN [w EXCEPT !.queue = rest, !.processed_items = processed]
       ELSE [queue |-> ResolveCalls(P, inv, current_file, analysis_result,
                                    Entry(analysis_result, t[1]).calls, rest, processed),
             processed_items |-> processed,
             collected_code |-> AddSnippet(w.collected_code, current_file,
                                           Entry(analysis_result, t[1]).source)]

\* A loop body that creates the file's entry of collected_code before it
\* tests the key
ForwardStepEmptyEntry(P, inv, w) ==
    LET current_file == Head(w.queue)[1]
        current_function_name == Head(w.queue)[2]
        rest == Tail(w.queue)
        processed == w.processed_items \cup {Head(w.queue)}
        analysis_result == AnalyzeFile(P, GetAnalyzerForFile(P, current_file), current_file)
        entry == [p \in DOMAIN w.collected_code \cup {current_file} |->
                     IF p \in DOMAIN w.collected_code THEN w.collected_code[p] ELSE {}]
    IN IF Head(w.queue) \in w.processed_items THEN [w EXCEPT !.queue = rest]
       ELSE IF ~Expands(P, w)
       THEN [queue |-> rest, processed_items |-> processed, collected_code |-> entry]
       ELSE [queue |-> ResolveCalls(P, inv, current_file, analysis_result,
                                    Entry(analysis_result, current_function_name).calls,
                                    rest, processed),
             processed_items |-> processed,
             collected_code |-> AddSnippet(w.collected_code, current_file,
                                           Entry(analysis_result, current_function_name).source)]

\* One iteration of the while loop of collect, lines 233-277
ForwardStep(P, inv, w) ==
    LET current_file == Head(w.queue)[1]
        current_function_name == Head(w.queue)[2]
        rest == Tail(w.queue)
        processed == w.processed_items \cup {Head(w.queue)}
        analysis_result == AnalyzeFile(P, GetAnalyzerForFile(P, current_file), current_file)
    IN IF Head(w.queue) \in w.processed_items THEN [w EXCEPT !.queue = rest]
       ELSE IF ~Expands(P, w) THEN [w EXCEPT !.queue = rest, !.processed_items = processed]
       ELSE [queue |-> ResolveCalls(P, inv, current_file, analysis_result,
                                    Entry(analysis_result, current_function_name).calls,
                                    rest, processed),
             processed_items |-> processed,
             collected_code |-> AddSnippet(w.collected_code, current_file,
                                           Entry(analysis_result, current_function_name).source)]

\* The while loop of collect run until the queue is empty
RECURSIVE RunForward(_, _, _)
RunForward(P, inv, w) ==
    IF w.queue = <<>> THEN w ELSE RunForward(P, inv, ForwardStep(P, inv, w))

---------------------------------------------------------------------------
(* Formatter *)

\* Paths in the order sorted() puts the absolute paths in
AbsOrder == <<"/p/r/a.py", "/p/r/b.py", "/p/r/c.ts", "/p/r/notes.txt", "/p/s/x.py">>
PathRank(path) == CHOOSE i \in DOMAIN AbsOrder : AbsOrder[i] = path

\* os.path.relpath(file_path, project_root).replace("\\", "/") for
\* project_root = /p/r
RelPath(path) ==
    CASE path = "/p/r/a.py" -> "a.py"
      [] path = "/p/r/b.py" -> "b.py"
      [] path = "/p/r/c.ts" -> "c.ts"
      [] path = "/p/r/notes.txt" -> "notes.txt"
      [] path = "/p/s/x.py" -> "../s/x.py"

\* The words of the model's texts in the order of their strings
WordOrder == <<"#", "K", "L", "async", "caller", "def", "from", "function", "g", "h",
               "helper", "import", "m", "main", "pass", "run", "self", "this", "u", "worker">>
WordRank(w) == CHOOSE i \in DOMAIN WordOrder : WordOrder[i] = w

LineWords(line) ==
    CASE line.kind = "def" -> <<"def", line.name>>
      [] line.kind = "async" -> <<"async", "def", line.name>>
      [] line.kind = "function" -> <<"function", line.name>>
      [] line.kind = "call" -> IF line.module = "" THEN <<line.name>> ELSE <<line.module, line.name>>
      [] line.kind = "import" -> <<"from", line.module, "import", line.name>>
      [] line.kind = "comment" -> <<"#", line.name>>
      [] OTHER -> <<"pass">>

\* A snippet as the sequence of its word ranks, 0 ending each line
RECURSIVE Text(_)
Text(snippet) ==
    IF snippet = <<>> THEN <<>>
    ELSE LET w == LineWords(Head(snippet))
         IN [i \in DOMAIN w |-> WordRank(w[i])] \o <<0>> \o Text(Tail(snippet))

\* Lexicographic order of two texts
RECURSIVE TextLess(_, _)
TextLess(a, b) ==
    IF b = <<>> THEN FALSE
    ELSE IF a = <<>> THEN TRUE
    ELSE IF Head(a) # Head(b) THEN Head(a) < Head(b)
    ELSE TextLess(Tail(a), Tail(b))

SnippetLess(a, b) == TextLess(Text(a), Text(b))
PathLess(a, b) == PathRank(a) < PathRank(b)

\* One block: the opening fence's path and the sorted snippets joined
Block(code, file_path) ==
    [fence |-> RelPath(file_path), body |-> SortSeq(SetToSeq(code[file_path]), SnippetLess)]

\* A formatter that opens a fence for every snippet
FormatOutputFencePerSnippet(code) ==
    LET pairs == SortSeq(SetToSeq(UNION {{<<f, sn>> : sn \in code[f]} : f \in DOMAIN code}),
                         LAMBDA a, b : \/ PathLess(a[1], b[1])
                                       \/ a[1] = b[1] /\ SnippetLess(a[2], b[2]))
    IN [i \in DOMAIN pairs |-> [fence |-> RelPath(pairs[i][1]), body |-> <<pairs[i][2]>>]]

\* CodeCollector._format_output: the blocks in the order of sorted(keys)
FormatOutput(code) ==
    LET sorted_files == SortSeq(SetToSeq(DOMAIN code), PathLess)
    IN [i \in DOMAIN sorted_files |-> Block(code, sorted_files[i])]

\* The (relative path, snippet) pairs a text holds
Pairs(text) == UNION {{<<text[i].fence, text[i].body[j]>> : j \in DOMAIN text[i].body} : i \in DOMAIN text}

---------------------------------------------------------------------------
(* collect as a function of the engine state it starts from *)

EmptyCode == [p \in {} |-> {}]

\* A newly constructed CodeCollector
FreshEngine == [collected_code |-> EmptyCode, processed_items |-> {}]

\* collect(start_file, start_function) on engine state e, every set
\* iterated in one fixed order: the state the call leaves
RunCollect(P, inv, e, start_pair) ==
    LET r == RunReverse(P, inv, RevInit(start_pair[2]))
        items == ItemsToAdd(P, start_pair, r.all_specific_callers, r.all_context_files)
    IN RunForward(P, inv, [queue |-> <<start_pair>> \o SetToSeq(items \ {start_pair}),
                           processed_items |-> e.processed_items,
                           collected_code |-> e.collected_code])

\* The text collect returns on a newly constructed instance
FreshOutput(P, inv, start_pair) == FormatOutput(RunCollect(P, inv, FreshEngine, start_pair).collected_code)

---------------------------------------------------------------------------
(* Projects: the files the engine is run on *)

\* A definition with its body, and a statement at module scope
Fn(cls, kind, name, body) == [tag |-> "fn", cls |-> cls, kind |-> kind, name |-> name, body |-> body]
Top(line) == [tag |-> "top", line |-> line]

ItemLines(it) == IF it.tag = "fn" THEN <<Line(it.kind, "", it.name)>> \o it.body ELSE <<it.line>>

RECURSIVE LinesOf(_)
LinesOf(items) == IF items = <<>> THEN <<>> ELSE ItemLines(Head(items)) \o LinesOf(Tail(items))

RECURSIVE DefsOf(_, _)
DefsOf(items, offset) ==
    IF items = <<>> THEN <<>>
    ELSE LET it == Head(items)
             n == Len(ItemLines(it))
         IN (IF it.tag = "fn" THEN <<Def(it.cls, it.name, offset + 1, offset + n)>> ELSE <<>>)
            \o DefsOf(Tail(items), offset + n)

SourceFile(path, lang, status, items) == File(path, lang, TRUE, status, LinesOf(items), DefsOf(items, 0))

APath == "/p/r/a.py"
BPath == "/p/r/b.py"
CPath == "/p/r/c.ts"
NPath == "/p/r/notes.txt"
XPath == "/p/s/x.py"

\* a.py: helper and main, main calls helper
ASingle == SourceFile(APath, "py", "ok",
    <<Fn("", "def", "helper", <<PassLine>>),
      Fn("", "def", "main", <<CallLine("", "helper")>>)>>)

\* a.py: main calls u.h() and g()
AQual == SourceFile(APath, "py", "ok",
    <<Fn("", "def", "main", <<CallLine("u", "h"), CallLine("", "g")>>)>>)

\* a.py: main and h call each other
ACycle == SourceFile(APath, "py", "ok",
    <<Fn("", "def", "main", <<CallLine("", "h")>>),
      Fn("", "def", "h", <<CallLine("", "main")>>)>>)

\* a.py: class K with run and h, and main calling u.run()
AMethods == SourceFile(APath, "py", "ok",
    <<Fn("K", "def", "run", <<CallLine("self", "h")>>),
      Fn("K", "def", "h", <<PassLine>>),
      Fn("", "def", "main", <<CallLine("u", "run")>>)>>)

\* a.py: main calls itself
ASelf == SourceFile(APath, "py", "ok",
    <<Fn("", "def", "main", <<CallLine("", "main")>>)>>)

\* a.py: helper, and main calling u.g(), m() and helper()
ADrop == SourceFile(APath, "py", "ok",
    <<Fn("", "def", "helper", <<PassLine>>),
      Fn("", "def", "main", <<CallLine("u", "g"), CallLine("", "m"), CallLine("", "helper")>>)>>)

\* b.py: h calls u.main()
BBack == SourceFile(BPath, "py", "ok",
    <<Fn("", "def", "h", <<CallLine("u", "main")>>)>>)

\* b.py: h calls g, and main() is called at module scope
BContext == SourceFile(BPath, "py", "ok",
    <<Fn("", "def", "h", <<CallLine("", "g")>>),
      Fn("", "def", "g", <<PassLine>>),
      Top(CallLine("", "main"))>>)

\* b.py: class L with h and run, and caller calling u.main()
BMethods == SourceFile(BPath, "py", "ok",
    <<Fn("L", "def", "h", <<PassLine>>),
      Fn("L", "def", "run", <<CallLine("self", "h")>>),
      Fn("", "def", "caller", <<CallLine("u", "main")>>)>>)

\* b.py with a syntax error: h calls main
BBroken == SourceFile(BPath, "py", "parse_error",
    <<Fn("", "def", "h", <<CallLine("", "main")>>)>>)

\* b.py: imports main, worker calls main
BImport == SourceFile(BPath, "py", "ok",
    <<Top(ImportLine("a", "main")),
      Fn("", "def", "g", <<PassLine>>),
      Fn("", "def", "worker", <<CallLine("", "main")>>)>>)

\* c.ts: h, g calling h, and main() called at module scope
CContext == SourceFile(CPath, "ts", "ok",
    <<Fn("", "function", "h", <<PassLine>>),
      Fn("", "function", "g", <<CallLine("", "h")>>),
      Top(CallLine("", "main"))>>)

\* c.ts: class K whose methods run and h call each other
CCycle == SourceFile(CPath, "ts", "ok",
    <<Fn("K", "function", "run", <<CallLine("this", "h")>>),
      Fn("K", "function", "h", <<CallLine("this", "run")>>)>>)

\* c.ts: main and h call each other
CLoop == SourceFile(CPath, "ts", "ok",
    <<Fn("", "function", "main", <<CallLine("", "h")>>),
      Fn("", "function", "h", <<CallLine("", "main")>>)>>)

\* b.py that cannot be read: h calls main
BUnreadable == SourceFile(BPath, "py", "unreadable",
    <<Fn("", "def", "h", <<CallLine("", "main")>>)>>)

\* b.py: classes K and L each with a method h, and caller calling h()
BSuffix == SourceFile(BPath, "py", "ok",
    <<Fn("K", "def", "h", <<PassLine>>),
      Fn("L", "def", "h", <<PassLine>>),
      Fn("", "def", "caller", <<CallLine("", "h")>>)>>)

\* c.ts for which the external parser fails: h, and a call of main
CFail(status) == SourceFile(CPath, "ts", status,
    <<Fn("", "function", "h", <<PassLine>>),
      Top(CallLine("", "main"))>>)

\* notes.txt under the project root: no analyzer has its extension
Notes == File(NPath, "none", TRUE, "ok", <<CallLine("", "main")>>, <<>>)

\* x.py outside the project root: main calls u.helper()
XOut == File(XPath, "py", FALSE, "ok",
    <<DefLine("main"), CallLine("u", "helper")>>, <<Def("", "main", 1, 2)>>)

\* b.py: caller holds the nested function worker, which calls main
BNested == File(BPath, "py", TRUE, "ok",
    <<DefLine("caller"), DefLine("worker"), CallLine("", "main")>>,
    <<Def("", "caller", 1, 3), Def("", "worker", 2, 3)>>)

AVariants == {<<>>, <<ASingle>>, <<AQual>>, <<ACycle>>, <<AMethods>>, <<ASelf>>}
BVariants == {<<>>, <<BContext>>, <<BMethods>>, <<BBroken>>, <<BImport>>, <<BBack>>}
CVariants == {<<>>, <<CContext>>, <<CCycle>>, <<CLoop>>, <<CFail("nonzero_exit")>>}

\* Every pairing of a.py with b.py or with c.ts, four projects of three files,
\* and a.py beside a file without analyzer or a file outside the project root
Projects ==
    {a \o b : a \in AVariants, b \in BVariants}
    \cup {a \o c : a \in AVariants, c \in CVariants}
    \cup {<<AQual, BContext, CContext>>, <<AMethods, BMethods, CCycle>>,
          <<ACycle, BBroken, CFail("bad_json")>>, <<AQual, BUnreadable, CFail("no_parser")>>,
          <<ACycle, Notes>>, <<ASingle, XOut>>, <<AQual, BSuffix>>, <<ASingle, BNested>>,
          <<ADrop>>, <<ADrop, BContext>>}

\* The projects whose only functions are those of one call cycle in one file:
\* alone, or beside a file that does not parse
CycleProjects == {<<ACycle>>, <<ASelf>>, <<CLoop>>, <<ACycle, BBroken>>, <<ASelf, BBroken>>}

\* Projects whose call graphs have cycles, self-recursion, and calls that
\* resolve to several definitions
TermProjects ==
    CycleProjects \cup {<<ACycle, BBack>>, <<ASelf, BBack>>, <<AMethods, BMethods>>, <<AQual, BBack>>}

\* The chain f0 calls f1 ... calls f(n-1) calls target, in one file
F(i) == "f" \o ToString(i)
ChainItems(n) ==
    [i \in 1..(n + 1) |->
        IF i = n + 1 THEN Fn("", "def", "target", <<PassLine>>)
        ELSE Fn("", "def", F(i - 1), <<CallLine("", IF i = n THEN "target" ELSE F(i))>>)]
Chain(n) == <<SourceFile(APath, "py", "ok", ChainItems(n))>>
ChainStart == <<APath, Bare("target")>>

ChainProjects == {Chain(ChainLen), Chain(MaxLevel + 1)}

\* The start pairs collect is called with
Starts(P) ==
    IF P \in ChainProjects THEN {ChainStart}
    ELSE {sp \in {<<APath, Bare("main")>>, <<BPath, Bare("h")>>,
                  <<CPath, Name("K", "run")>>, <<CPath, Bare("main")>>,
                  <<CPath, Bare("g")>>,
                  <<NPath, Bare("main")>>, <<XPath, Bare("main")>>} : HasFile(P, sp[1])}

---------------------------------------------------------------------------
(* The state machine *)

NoCounts == [k \in {} |-> 0]
Count(f, k) == IF k \in DOMAIN f THEN f[k] ELSE 0
Incr(f, k) == [q \in DOMAIN f \cup {k} |-> IF q = k THEN Count(f, k) + 1 ELSE f[q]]

\* The locals of the reverse search and of the forward traversal as records
Rev == [search_queue |-> search_queue, current_targets |-> current_targets, level |-> level,
        processed_functions |-> processed_functions,
        all_specific_callers |-> all_specific_callers, all_context_files |-> all_context_files]
Fwd == [queue |-> queue, processed_items |-> processed_items, collected_code |-> collected_code]
Caches == [py |-> py_cache, ts |-> ts_cache, parses |-> parses]

SetRev(r) ==
    /\ search_queue' = r.search_queue
    /\ current_targets' = r.current_targets
    /\ level' = r.level
    /\ processed_functions' = r.processed_functions
    /\ all_specific_callers' = r.all_specific_callers
    /\ all_context_files' = r.all_context_files

SetCaches(c) ==
    /\ py_cache' = c.py
    /\ ts_cache' = c.ts
    /\ parses' = c.parses

\* CodeCollector.__init__ on a project as it lies on disk
InitOn(projects) ==
    /\ project \in projects
    /\ inventory \in Perms(SourcePaths(project))
    /\ pc = "idle"
    /\ calls = 0
    /\ start = <<>>
    /\ collected_code = EmptyCode
    /\ processed_items = {}
    /\ py_cache = {}
    /\ ts_cache = {}
    /\ parses = NoCounts
    /\ search_queue = <<>>
    /\ current_targets = <<>>
    /\ level = 0
    /\ processed_functions = {}
    /\ all_specific_callers = {}
    /\ all_context_files = {}
    /\ scans = NoCounts
    /\ queue = <<>>
    /\ first_dequeued = <<>>
    /\ enqueued_processed = FALSE
    /\ output = <<>>
    /\ history = <<>>
    /\ beat = FALSE

Init == InitOn(Projects)

\* A call of collect that first empties the instance's stores
CollectResets(start_pair) ==
    /\ pc \in {"idle", "done"}
    /\ calls < MaxCalls
    /\ calls' = calls + 1
    /\ start' = start_pair
    /\ pc' = "reverse"
    /\ SetRev(RevInit(start_pair[2]))
    /\ scans' = NoCounts
    /\ queue' = <<>>
    /\ first_dequeued' = <<>>
    /\ enqueued_processed' = FALSE
    /\ collected_code' = EmptyCode
    /\ processed_items' = {}
    /\ UNCHANGED <<project, inventory, py_cache, ts_cache, parses, output, history, beat>>

\* collect is called: lines 196-198 and 51-55
Collect(start_pair) ==
    /\ pc \in {"idle", "done"}
    /\ calls < MaxCalls
    /\ calls' = calls + 1
    /\ start' = start_pair
    /\ pc' = "reverse"
    /\ SetRev(RevInit(start_pair[2]))
    /\ scans' = NoCounts
    /\ queue' = <<>>
    /\ first_dequeued' = <<>>
    /\ enqueued_processed' = FALSE
    /\ UNCHANGED <<project, inventory, collected_code, processed_items, py_cache, ts_cache,
                   parses, output, history, beat>>

\* The while loop of the reverse search starts a level: lines 57-60
BeginLevel ==
    /\ beat' = ~beat
    /\ pc = "reverse"
    /\ current_targets = <<>>
    /\ RevLoopGuard(Rev)
    /\ SetRev(RevBeginLevel(Rev))
    /\ UNCHANGED <<project, inventory, pc, calls, start, collected_code, processed_items,
                   py_cache, ts_cache, parses, scans, queue, first_dequeued,
                   enqueued_processed, output, history>>

\* One name of the level: lines 64-82, with _find_direct_callers
ScanTarget ==
    /\ beat' = ~beat
    /\ pc = "reverse"
    /\ current_targets # <<>>
    /\ LET current_target == Head(current_targets)
       IN IF RevSkips(Rev)
          THEN /\ SetRev(RevExpand(project, inventory, Rev, <<>>))
               /\ UNCHANGED <<py_cache, ts_cache, parses, scans>>
          ELSE /\ \E order \in Perms(FindDirectCallers(project, inventory, current_target).specific) :
                      SetRev(RevExpand(project, inventory, Rev, order))
               /\ SetCaches(MemoAll(project, Caches, ScanCalls(project, inventory, current_target, 1)))
               /\ scans' = Incr(scans, current_target)
    /\ UNCHANGED <<project, inventory, pc, calls, start, collected_code, processed_items,
                   queue, first_dequeued, enqueued_processed, output, history>>

\* The analyze_file calls of lines 216-217, one per context file
ContextCalls(context_files) ==
    LET cfs == SetToSeq(context_files) IN [i \in DOMAIN cfs |-> ACall("python", cfs[i])]

\* The reverse search returns and collect builds its queue: lines 200-224
BuildQueue ==
    /\ beat' = ~beat
    /\ pc = "reverse"
    /\ current_targets = <<>>
    /\ ~RevLoopGuard(Rev)
    /\ IF \E cf \in all_context_files : AnalyzeFile(project, "python", cf).raised
       THEN pc' = "raised" /\ queue' = queue
       ELSE /\ pc' = "forward"
            /\ queue' \in SeedOrders(ItemsToAdd(project, start, all_specific_callers,
                                               all_context_files), start)
    /\ SetCaches(MemoAll(project, Caches, ContextCalls(all_context_files)))
    /\ UNCHANGED <<project, inventory, calls, start, collected_code, processed_items,
                   search_queue, current_targets, level, processed_functions,
                   all_specific_callers, all_context_files, scans, first_dequeued,
                   enqueued_processed, output, history>>

\* The analyze_file calls of one iteration of the forward loop: line 242,
\* and line 171 for every source file and every qualified call site
RECURSIVE GrepCalls(_, _)
GrepCalls(inv, callseq) ==
    IF callseq = <<>> THEN <<>>
    ELSE (IF Head(callseq).module # "" THEN [i \in DOMAIN inv |-> ACall("python", inv[i])] ELSE <<>>)
         \o GrepCalls(inv, Tail(callseq))

DequeueCalls(P, inv, w) ==
    LET current_file == Head(w.queue)[1]
        analyzer == GetAnalyzerForFile(P, current_file)
    IN IF Head(w.queue) \in w.processed_items \/ analyzer = "none" THEN <<>>
       ELSE <<ACall(analyzer, current_file)>>
            \o (IF Expands(P, w)
                THEN GrepCalls(inv, Entry(AnalyzeFile(P, analyzer, current_file), Head(w.queue)[2]).calls)
                ELSE <<>>)

\* A loop body that indexes the function table without testing the key
DequeueRaisesKeyError(P, w) ==
    /\ Head(w.queue) \notin w.processed_items
    /\ Head(w.queue)[2] \notin Keys(AnalyzeFile(P, GetAnalyzerForFile(P, Head(w.queue)[1]),
                                                 Head(w.queue)[1]))

\* Whether analyze_file raises at line 242
DequeueRaises(P, w) ==
    /\ Head(w.queue) \notin w.processed_items
    /\ AnalyzeFile(P, GetAnalyzerForFile(P, Head(w.queue)[1]), Head(w.queue)[1]).raised

\* One iteration of the forward loop: lines 233-277
Dequeue ==
    /\ beat' = ~beat
    /\ pc = "forward"
    /\ queue # <<>>
    /\ LET w == ForwardStep(project, inventory, Fwd)
           appended == SubSeq(w.queue, Len(queue), Len(w.queue))
       IN /\ processed_items' = w.processed_items
          /\ IF DequeueRaises(project, Fwd)
             THEN pc' = "raised" /\ UNCHANGED <<queue, collected_code, enqueued_processed>>
             ELSE /\ pc' = pc
                  /\ queue' = w.queue
                  /\ collected_code' = w.collected_code
                  /\ enqueued_processed' =
                        (enqueued_processed \/ \E i \in DOMAIN appended : appended[i] \in w.processed_items)
    /\ first_dequeued' = IF first_dequeued = <<>> /\ Head(queue) \notin processed_items
                         THEN Head(queue) ELSE first_dequeued
    /\ SetCaches(MemoAll(project, Caches, DequeueCalls(project, inventory, Fwd)))
    /\ UNCHANGED <<project, inventory, calls, start, search_queue, current_targets, level,
                   processed_functions, all_specific_callers, all_context_files, scans,
                   output, history>>

\* The queue is empty: collect returns _format_output(), line 278
Return ==
    /\ beat' = ~beat
    /\ pc = "forward"
    /\ queue = <<>>
    /\ pc' = "done"
    /\ output' = FormatOutput(collected_code)
    /\ history' = Append(history, [start |-> start, output |-> FormatOutput(collected_code)])
    /\ UNCHANGED <<project, inventory, calls, start, collected_code, processed_items,
                   py_cache, ts_cache, parses, search_queue, current_targets, level,
                   processed_functions, all_specific_callers, all_context_files, scans,
                   queue, first_dequeued, enqueued_processed>>

Next ==
    \/ \E start_pair \in Starts(project) : Collect(start_pair)
    \/ BeginLevel
    \/ ScanTarget
    \/ BuildQueue
    \/ Dequeue
    \/ Return

Spec == Init /\ [][Next]_vars

\* Once called, collect runs to its return: the engine is single-threaded
\* and synchronous, so a running invocation keeps taking steps
Running == pc \in {"reverse", "forward"}
Progress == Running /\ beat' = ~beat

\* The reverse search alone, on the chains of callers
RevInitState == InitOn(ChainProjects)
RevNext ==
    \/ \E start_pair \in Starts(project) : Collect(start_pair)
    \/ BeginLevel
    \/ ScanTarget
RevSpec == RevInitState /\ [][RevNext]_vars

\* The engine on the projects of one call cycle, every call running to its return
CycleInit == InitOn(CycleProjects)
CycleSpec == CycleInit /\ [][Next]_vars /\ WF_beat(Progress)

\* The engine on the projects of TermProjects, every call running to its return
TermInit == InitOn(TermProjects)
TermSpec == TermInit /\ [][Next]_vars /\ WF_beat(Progress)

---------------------------------------------------------------------------
(* Vocabulary of the properties *)

Done == pc = "done"

\* The analysis of a file by the analyzer of its own extension
OwnAnalysis(P, path) == AnalyzeFile(P, GetAnalyzerForFile(P, path), path)

\* The functions the source files of the project define
Defined(P) == UNION {{<<path, key>> : key \in Keys(OwnAnalysis(P, path))} : path \in SourcePaths(P)}

SourceOf(P, pair) == Entry(OwnAnalysis(P, pair[1]), pair[2]).source
CallsOf(P, pair) == Entry(OwnAnalysis(P, pair[1]), pair[2]).calls

\* Whether the source of a defined function is in a text
InText(text, P, pair) == <<RelPath(pair[1]), SourceOf(P, pair)>> \in Pairs(text)

\* The reverse search has returned
ReverseReturned == pc \in {"forward", "done"}

---------------------------------------------------------------------------
(* C1: closure completeness.  When collect has returned, for every function
   whose source is in the output and every call site recorded for it, every
   function of a source file whose key is the callee's name or ends in
   .name has its source in the output too, for qualified and unqualified
   calls and for definitions in the same or another file. *)
C1_ClosureComplete ==
    Done =>
        \A d \in Defined(project) : InText(output, project, d) =>
            \A i \in DOMAIN CallsOf(project, d) : \A e \in Defined(project) :
                KeyMatches(e[2], Bare(CallsOf(project, d)[i].name)) => InText(output, project, e)

(* C2: fresh state per invocation.  Every collect call on an instance
   returns the text the same call returns on a newly constructed instance. *)
C2_FreshPerInvocation ==
    Done => output = FreshOutput(project, inventory, start)

\* One fixed listing order of the source files
CanonicalInventory(P) == SetToSeq(SourcePaths(P))

(* C3: idempotence.  The text of a first collect(f, g) is the same for every
   order the inventory lists the files in and every order the seeds and the
   frontier are queued in, and a run repeated at once on the same instance
   returns the text of the run before it. *)
C3_Idempotent ==
    Done =>
        /\ calls = 1 => output = FreshOutput(project, CanonicalInventory(project), start)
        /\ \A i \in DOMAIN history :
              (i > 1 /\ history[i].start = history[i - 1].start)
                  => history[i].output = history[i - 1].output

C3_Witness ==
    /\ Done
    /\ calls = 2
    /\ history[1].start = history[2].start
    /\ inventory # CanonicalInventory(project)
    /\ Len(output) = 2
    /\ Cardinality(all_specific_callers) >= 2

\* The functions with a call site naming one of the bare names
CallersByName(P, names) ==
    {d \in Defined(P) : \E i \in DOMAIN CallsOf(P, d) : CallsOf(P, d)[i].name \in names}

\* The functions that call one of the names directly or through other
\* functions, every call site read by the bare name of its callee
RECURSIVE TransitiveCallers(_, _, _)
TransitiveCallers(P, names, found) ==
    LET new == CallersByName(P, names)
    IN IF new \subseteq found THEN found
       ELSE TransitiveCallers(P, names \cup {d[2].name : d \in new}, found \cup new)

(* C4: the reverse search finds all transitive callers.  For a target given
   by its bare name, every function of a chain of calls ending in the
   target, each call site read by the bare name of its callee, is in the
   specific-caller set the reverse search returns, for free functions and
   for class methods. *)
C4_AllTransitiveCallers ==
    (ReverseReturned /\ start[2].cls = "") =>
        TransitiveCallers(project, {start[2].name}, {}) \subseteq all_specific_callers

\* A call of the name at module scope, in a file whose analysis succeeds
CalledAtModuleScope(P, path, name) ==
    /\ ~OwnAnalysis(P, path).empty
    /\ \E i \in DOMAIN FileAt(P, path).lines :
          /\ FileAt(P, path).lines[i].kind = "call"
          /\ FileAt(P, path).lines[i].name = name.name
          /\ name.cls = ""
          /\ Innermost(FileAt(P, path), i) = 0

(* C5: context-file expansion.  A file in which a frontier name is called at
   module scope is in the context-file set, and the output holds the source
   of every function the file defines, in either language family. *)
C5_ContextExpansion ==
    Done =>
        \A path \in SourcePaths(project) :
            (\E name \in processed_functions : CalledAtModuleScope(project, path, name))
                => /\ path \in all_context_files
                   /\ \A key \in Keys(OwnAnalysis(project, path)) :
                         InText(output, project, <<path, key>>)

\* collect is running or has run on the function main of a call cycle
CycleCollect == project \in CycleProjects /\ calls >= 1 /\ start = <<project[1].path, Bare("main")>>

\* The text holds one block for the file, with the snippet of every function
\* of the cycle once and nothing else
CycleExact ==
    /\ Len(output) = 1
    /\ Len(output[1].body) = Len(project[1].defs)
    /\ Pairs(output) = {<<RelPath(d[1]), SourceOf(project, d)>> : d \in Defined(project)}

(* C6: cycle safety of the forward phase.  On a project of two functions
   that call each other, or of one function that calls itself, a collect
   on one of them returns, and the text it returns holds exactly the
   snippets of the functions of the cycle, each once. *)
C6_CycleSafety ==
    /\ [](CycleCollect /\ Done => CycleExact)
    /\ (CycleCollect /\ ~Done) ~> (CycleCollect /\ Done /\ CycleExact)

C6_Witness ==
    /\ CycleCollect
    /\ Done
    /\ project = <<ACycle>>
    /\ Len(output[1].body) = 2
    /\ Cardinality(processed_items) = 2

\* The callers of the chain above the target, and those within the level cap
ChainCallers == Len(project[1].defs) - 1
NearestCallers == {<<APath, Bare(F(i))>> : i \in (ChainCallers - MaxLevel)..(ChainCallers - 1)}

\* The while loop of the reverse search has ended
ReverseEnded == pc = "reverse" /\ calls >= 1 /\ current_targets = <<>> /\ ~RevLoopGuard(Rev)

(* C7: reverse-search bound.  On a chain of more callers than the level cap
   the reverse search never starts a level beyond the cap, never raises and
   never holds a caller farther than the cap from the target; when its loop
   ends it has run exactly MaxLevel levels, one scan for each, and holds
   exactly the MaxLevel callers nearest the target. *)
C7_ReverseBound ==
    /\ level <= MaxLevel
    /\ pc # "raised"
    /\ all_specific_callers \subseteq NearestCallers
    /\ ReverseEnded =>
          /\ level = MaxLevel
          /\ Cardinality(DOMAIN scans) = MaxLevel
          /\ \A k \in DOMAIN scans : scans[k] = 1
          /\ all_specific_callers = NearestCallers
          /\ Cardinality(all_specific_callers) = MaxLevel

C7_Witness ==
    /\ ReverseEnded
    /\ ChainCallers = ChainLen
    /\ search_queue = <<Bare(F(ChainLen - MaxLevel))>>
    /\ <<APath, Bare(F(ChainLen - MaxLevel - 1))>> \notin all_specific_callers

(* C8: qualified-call resolution is project-wide.  When collect has
   returned, for every function whose source is in the output and every
   qualified call site q.m of it, every function of every source file, of
   either language family, whose key is m or ends in .m has its source in
   the output. *)
C8_QualifiedProjectWide ==
    Done =>
        \A d \in Defined(project) : InText(output, project, d) =>
            \A i \in DOMAIN CallsOf(project, d) :
                CallsOf(project, d)[i].module # "" =>
                    \A e \in Defined(project) :
                        KeyMatches(e[2], Bare(CallsOf(project, d)[i].name))
                            => InText(output, project, e)

(* C9: analyzer memoization.  For each analyzer and each path, the file is
   read and parsed, or the parser process run, at most once in the life of
   the engine instance, also when the first parse failed. *)
C9_ParsedAtMostOnce ==
    \A k \in DOMAIN parses : parses[k] <= 1

\* The files whose analysis fails, and the project without them
Fails(f) == f.status # "ok"
Healthy(P) == SelectSeq(P, LAMBDA f : ~Fails(f))
HealthyInventory(P, inv) == SelectSeq(inv, LAMBDA path : ~Fails(FileAt(P, path)))

\* The engine state after the collect calls h[i], h[i+1], ... from state e
RECURSIVE RunCalls(_, _, _, _, _)
RunCalls(P, inv, e, h, i) ==
    IF i > Len(h) THEN e
    ELSE LET w == RunCollect(P, inv, e, h[i].start)
         IN RunCalls(P, inv, [collected_code |-> w.collected_code,
                              processed_items |-> w.processed_items], h, i + 1)

(* C10: a file-level analysis failure is recoverable.  No analyze call
   raises into collect, and on a project with files whose analysis fails
   collect returns the text it returns on the project without those files:
   the snippets reachable through the other files. *)
C10_FailureRecoverable ==
    /\ pc # "raised"
    /\ (Done /\ \E i \in DOMAIN project : Fails(project[i])) =>
          output = FormatOutput(RunCalls(Healthy(project), HealthyInventory(project, inventory),
                                         FreshEngine, history, 1).collected_code)

C10_Witness ==
    /\ Done
    /\ calls = 1
    /\ Count(parses, <<"python", BPath>>) >= 1
    /\ Count(parses, <<"typescript", CPath>>) >= 1
    /\ Fails(FileAt(project, BPath))
    /\ Fails(FileAt(project, CPath))
    /\ Len(output) = 1
    /\ Len(output[1].body) = 2

\* The start function is a key of the function table of the start file
StartFound(P, start_pair) == start_pair[2] \in Keys(OwnAnalysis(P, start_pair[1]))

\* The seeds of the queue other than the start pair
OtherSeeds == ItemsToAdd(project, start, all_specific_callers, all_context_files) \ {start}

(* C11: not-found is not an error.  collect never raises, and when the start
   function is not a key of the start file's function table (no analyzer,
   an empty analysis, or no such key), the first collect of an instance
   returns the text collected from the callers and the context files alone,
   which is the empty text when there are none. *)
C11_NotFoundNotError ==
    /\ pc \in {"idle", "reverse", "forward", "done"}
    /\ (Done /\ calls = 1 /\ ~StartFound(project, start)) =>
          /\ output = FormatOutput(RunForward(project, inventory,
                           [queue |-> SetToSeq(OtherSeeds), processed_items |-> {},
                            collected_code |-> EmptyCode]).collected_code)
          /\ OtherSeeds = {} => output = <<>>

C11_Witness ==
    /\ Done
    /\ calls = 1
    /\ start = <<NPath, Bare("main")>>
    /\ ~StartFound(project, start)
    /\ start \in processed_items
    /\ Len(output) = 1
    /\ Len(output[1].body) = 2

(* C12: no duplication.  In the text collect returns no two blocks are of
   the same file and no block holds the same snippet twice, also when a
   function is reached along several call paths, is a seed and a callee,
   or is queued several times. *)
C12_NoDuplication ==
    Done =>
        /\ \A i, j \in DOMAIN output : i # j => output[i].fence # output[j].fence
        /\ \A i \in DOMAIN output : \A k, l \in DOMAIN output[i].body :
              k # l => output[i].body[k] # output[i].body[l]

C12_Witness ==
    /\ Done
    /\ enqueued_processed
    /\ Len(output) >= 2
    /\ \E i \in DOMAIN output : Len(output[i].body) >= 2
    /\ Cardinality(all_specific_callers) >= 1

(* C13: forward termination.  On a finite project, with cycles,
   self-recursion and calls resolved to several definitions, a forward
   traversal that has started empties its queue and collect returns. *)
C13_ForwardTerminates ==
    (pc = "forward") ~> (Done /\ queue = <<>>)

C13_Witness ==
    /\ Done
    /\ queue = <<>>
    /\ project = <<AMethods, BMethods>>
    /\ start = <<APath, Bare("main")>>
    /\ {<<APath, Name("K", "run")>>, <<BPath, Name("L", "run")>>} \subseteq processed_items
    /\ Len(output) = 2

\* The relative paths in the order of their strings
RelOrder == <<"../s/x.py", "a.py", "b.py", "c.ts", "notes.txt">>
RelRank(rel) == CHOOSE i \in DOMAIN RelOrder : RelOrder[i] = rel

(* C14: formatter ordering.  The text has one block for every file with
   collected snippets, the blocks in the order of the files' paths relative
   to the project root, also for a collected file outside the root, and in
   every block the snippets in the order of their text. *)
C14_FormatterOrder ==
    Done =>
        /\ {output[i].fence : i \in DOMAIN output} = {RelPath(f) : f \in DOMAIN collected_code}
        /\ Len(output) = Cardinality(DOMAIN collected_code)
        /\ \A i, j \in DOMAIN output :
              i < j => RelRank(output[i].fence) < RelRank(output[j].fence)
        /\ \A i \in DOMAIN output : \A k, l \in DOMAIN output[i].body :
              k < l => SnippetLess(output[i].body[k], output[i].body[l])

(* C15: name-based over-approximation in the reverse search.  For a target
   given by its bare name, every function with a call site of that name is
   a specific caller, whatever the receiver of the call and whatever the
   start file: the callers of the methods of that name of two unrelated
   classes are all returned.  A function nested in another function is
   left aside: its lines are classified under the enclosing function. *)
C15_NameBasedCallers ==
    LET Range(d) == Entry(OwnAnalysis(project, d[1]), d[2])
        Nested(d) == \E e \in Defined(project) :
                        /\ e[1] = d[1]
                        /\ e # d
                        /\ Range(e).start <= Range(d).start
                        /\ Range(d).end <= Range(e).end
    IN (ReverseReturned /\ start[2].cls = "") =>
          \A d \in CallersByName(project, {start[2].name}) :
              ~Nested(d) => d \in all_specific_callers

C15_Witness ==
    /\ ReverseReturned
    /\ project = <<AMethods, BMethods>>
    /\ start = <<BPath, Bare("h")>>
    /\ Name("K", "h") \in Keys(OwnAnalysis(project, APath))
    /\ Name("L", "h") \in Keys(OwnAnalysis(project, BPath))
    /\ {<<APath, Name("K", "run")>>, <<BPath, Name("L", "run")>>} \subseteq all_specific_callers

\* collect is running or has run on main of the project of a.py alone
SingleFileCollect == project = <<ASingle>> /\ calls >= 1 /\ start = <<APath, Bare("main")>>

(* C16: single-file scenario.  On a project whose only file defines helper
   and main, main calling helper and nothing calling main, collect on main
   returns one block, of a.py, holding exactly the snippets of helper and
   main; main is the start pair, dequeued first by the first collect of
   the instance, and helper is no seed: it is reached through the call in
   main. *)
C16_SingleFile ==
    (SingleFileCollect /\ Done) =>
        /\ output = <<[fence |-> "a.py",
                       body |-> <<SubSeq(ASingle.lines, 1, 2), SubSeq(ASingle.lines, 3, 4)>>]>>
        /\ calls = 1 => first_dequeued = start
        /\ all_specific_callers = {}
        /\ all_context_files = {}
        /\ processed_items = {start, <<APath, Bare("helper")>>}

C16_Witness ==
    /\ SingleFileCollect
    /\ Done
    /\ calls = 1
    /\ Len(output) = 1
    /\ Len(output[1].body) = 2
    /\ <<APath, Bare("helper")>> \in processed_items

(* C17: frontier entries are bare names.  In a reverse search for a bare
   target name, every name queued for the next level or being scanned in
   the running level is a bare function name: for a caller with key
   Class.name the frontier receives name. *)
C17_FrontierBare ==
    (pc = "reverse" /\ start[2].cls = "") =>
        /\ \A i \in DOMAIN search_queue : search_queue[i].cls = ""
        /\ \A i \in DOMAIN current_targets : current_targets[i].cls = ""

(* C18: every enqueue of the forward traversal is gated.  No pair that is
   already in the processed set is appended to the queue, by the same-file
   resolution of unqualified calls or by the project-wide resolution of
   qualified calls. *)
C18_EnqueueGated ==
    ~enqueued_processed

\* What the unqualified call of h in a function of a file is to append: the
\* pair (path, h) when the file defines the key h, else the pair of the first
\* definition of the file whose key ends in .h, else nothing
ExpectedLocal(P, path, h) ==
    LET f == FileAt(P, path)
        KeyOf(k) == Name(f.defs[k].cls, f.defs[k].name)
        exact == {k \in DOMAIN f.defs : KeyOf(k) = h}
        suffix == {k \in DOMAIN f.defs : EndsWithDot(KeyOf(k), h)}
    IN IF exact # {} THEN <<(<<path, h>>)>>
       ELSE IF suffix # {} THEN <<(<<path, KeyOf(CHOOSE k \in suffix : \A j \in suffix : k <= j)>>)>>
       ELSE <<>>

\* The queue after the call sites of a function of the file, the unqualified ones
\* appending ExpectedLocal and the qualified ones what the project-wide
\* search finds
RECURSIVE ExpectedQueue(_, _, _, _, _, _)
ExpectedQueue(P, inv, path, callseq, q, processed) ==
    IF callseq = <<>> THEN q
    ELSE ExpectedQueue(P, inv, path, Tail(callseq),
            IF Head(callseq).module = ""
            THEN q \o ExpectedLocal(P, path, Bare(Head(callseq).name))
            ELSE AppendNew(q, FindDefinitionGrep(P, inv, Bare(Head(callseq).name)), processed),
            processed)

(* C19: unqualified-call resolution.  When a function of file F is
   expanded, each unqualified call of a name h appends exactly (F, h) if F
   has the key h, else exactly the first key of F in table order that ends
   in .h, else nothing; no pair of another file is appended for it. *)
C19_UnqualifiedLocal ==
    [][(pc = "forward" /\ pc' = "forward" /\ Expands(project, Fwd)) =>
          queue' = ExpectedQueue(project, inventory, Head(queue)[1],
                                 CallsOf(project, Head(queue)), Tail(queue),
                                 processed_items \cup {Head(queue)})]_vars

C19_Witness ==
    /\ pc = "forward"
    /\ project = <<AQual, BSuffix>>
    /\ <<BPath, Bare("caller")>> \in processed_items
    /\ Contains(queue, <<BPath, Name("K", "h")>>)
    /\ ~Contains(queue, <<BPath, Name("L", "h")>>)
    /\ <<BPath, Name("L", "h")>> \notin processed_items

\* The lines of the source files that mention the name other than by
\* defining a function
MentionedElsewhere(P, target) ==
    \E path \in SourcePaths(P) : \E i \in DOMAIN FileAt(P, path).lines :
        /\ SearchMatch(FileAt(P, path).lines[i], target)
        /\ FileAt(P, path).lines[i].kind \notin {"def", "async", "function"}

(* C20: definition lines are excluded from the caller scan.  Once the
   reverse search for a bare name has returned, a function of that name in a
   file of either language family that no line other than a definition
   mentions is not among the specific callers. *)
C20_DefinitionLineExcluded ==
    (ReverseReturned /\ start[2].cls = "") =>
        \A d \in Defined(project) :
            (d[2].name = start[2].name /\ ~MentionedElsewhere(project, start[2]))
                => d \notin all_specific_callers

(* C21: only call-like occurrences are shortlisted.  Once the reverse search
   for a bare name has returned, every context file has at module scope a
   line that mentions a searched name other than by importing it or in a
   comment, and every specific caller has such a line within its range. *)
C21_OnlyCallsShortlisted ==
    (ReverseReturned /\ start[2].cls = "") =>
        /\ \A path \in all_context_files :
              \E i \in DOMAIN FileAt(project, path).lines : \E name \in processed_functions :
                  /\ SearchMatch(FileAt(project, path).lines[i], name)
                  /\ FileAt(project, path).lines[i].kind \notin {"import", "comment"}
                  /\ Innermost(FileAt(project, path), i) = 0
        /\ \A d \in all_specific_callers :
              \E i \in Entry(OwnAnalysis(project, d[1]), d[2]).start ..
                       Entry(OwnAnalysis(project, d[1]), d[2]).end :
                  \E name \in processed_functions :
                      /\ SearchMatch(FileAt(project, d[1]).lines[i], name)
                      /\ FileAt(project, d[1]).lines[i].kind \notin {"import", "comment"}

(* C22: no re-expansion of names.  Within one reverse search the
   direct-caller scan has run at most once for each name, however often the
   name was put in the frontier. *)
C22_NoReExpansion ==
    \A name \in DOMAIN scans : scans[name] <= 1

\* main has the callers h of a.py and h of b.py, so h is in the frontier of
\* level 2 twice; the caller of h is main, which is not searched again
C22_Witness ==
    /\ ReverseReturned
    /\ project = <<ACycle, BBack>>
    /\ start = <<APath, Bare("main")>>
    /\ level = 2
    /\ DOMAIN scans = {Bare("main"), Bare("h")}
    /\ scans[Bare("main")] = 1
    /\ scans[Bare("h")] = 1

(* C23: reverse-search termination.  A reverse search that has started
   returns, and the number of levels it has started never exceeds the number
   of distinct caller names it has found plus one, call cycles included, so
   that only more than MaxLevel - 1 distinct caller names bring it to the
   level cap. *)
C23_ReverseTerminates ==
    /\ [](level <= Cardinality({d[2] : d \in all_specific_callers}) + 1)
    /\ ((pc = "reverse") ~> ReverseReturned)

C23_Witness ==
    /\ ReverseReturned
    /\ project = <<ACycle>>
    /\ level = 2
    /\ search_queue = <<>>
    /\ all_specific_callers = {<<APath, Bare("h")>>, <<APath, Bare("main")>>}
    /\ processed_functions = {Bare("h"), Bare("main")}

(* C24: no duplicate work in the forward phase.  A dequeued pair that is not
   yet processed is marked processed by the step that dequeues it, the
   processed set never shrinks, and the step that dequeues a processed pair
   only removes it from the queue: no snippet, no processed mark, no enqueue
   and no analysis.  So each pair is expanded at most once. *)
C24_NoDuplicateWork ==
    [][(pc = "forward" /\ queue # <<>>) =>
          /\ processed_items \subseteq processed_items'
          /\ Head(queue) \in processed_items'
          /\ Head(queue) \in processed_items =>
                /\ queue' = Tail(queue)
                /\ pc' = pc
                /\ UNCHANGED <<collected_code, processed_items, py_cache, ts_cache, parses>>]_vars

\* main of a.py calls itself: its pair was queued again while it was expanded,
\* and has been dequeued a second time
C24_Witness ==
    /\ pc = "forward"
    /\ calls = 1
    /\ project = <<ASelf>>
    /\ enqueued_processed
    /\ queue = <<>>
    /\ processed_items = {<<APath, Bare("main")>>}
    /\ DOMAIN collected_code = {APath}
    /\ Cardinality(collected_code[APath]) = 1

(* C25: line classification in the direct-caller scan.  Once the reverse
   search has returned, its records in the analysed files are exactly these:
   for every searched name and every shortlisted line of the file, the pair
   of the file and the first definition in table order whose start..end
   range holds the line, or, when no range holds it, the file as a context
   file.  A file can be in both sets. *)
C25_LineClassification ==
    LET Analysed == {path \in SourcePaths(project) : ~OwnAnalysis(project, path).empty}
        Lines(path) == UNION {CallLocations(FileAt(project, path), name) : name \in processed_functions}
        Holding(path, i) == {k \in DOMAIN FileAt(project, path).defs :
                                /\ FileAt(project, path).defs[k].start <= i
                                /\ i <= FileAt(project, path).defs[k].end}
        First(path, i) == FileAt(project, path).defs[CHOOSE k \in Holding(path, i) :
                                                        \A j \in Holding(path, i) : k <= j]
    IN ReverseReturned =>
          /\ {d \in all_specific_callers : d[1] \in Analysed}
                = UNION {{<<path, Name(First(path, i).cls, First(path, i).name)>> :
                             i \in {j \in Lines(path) : Holding(path, j) # {}}} : path \in Analysed}
          /\ all_context_files \cap Analysed
                = {path \in Analysed : \E i \in Lines(path) : Holding(path, i) = {}}

\* The call of main in b.py lies in the ranges of caller and of the nested
\* worker: the record is caller
C25_Witness ==
    /\ ReverseReturned
    /\ project = <<ASingle, BNested>>
    /\ start = <<APath, Bare("main")>>
    /\ all_specific_callers = {<<BPath, Bare("caller")>>}
    /\ all_context_files = {}

(* C26: a file without analysis in the reverse search.  Once the reverse
   search has returned, a source file whose analysis is empty is not a
   context file and has no specific caller, whatever lines of it were
   shortlisted; every analysed file with a shortlisted line for a searched
   name has its record, wherever it stands in the inventory; and below the
   level cap every caller found has been searched for in its turn. *)
C26_FailedFileSkipped ==
    LET Failed == {path \in SourcePaths(project) : OwnAnalysis(project, path).empty}
    IN ReverseReturned =>
          /\ all_context_files \cap Failed = {}
          /\ \A d \in all_specific_callers : d[1] \notin Failed
          /\ \A path \in SourcePaths(project) \ Failed : \A name \in processed_functions :
                CallLocations(FileAt(project, path), name) # {} =>
                    \/ path \in all_context_files
                    \/ \E d \in all_specific_callers : d[1] = path
          /\ level < MaxLevel => \A d \in all_specific_callers : d[2] \in processed_functions

\* b.py does not parse and the parser of c.ts fails; both mention main
C26_Witness ==
    /\ ReverseReturned
    /\ project = <<ACycle, BBroken, CFail("bad_json")>>
    /\ start = <<APath, Bare("main")>>
    /\ CallLocations(BBroken, Bare("main")) # {}
    /\ CallLocations(CFail("bad_json"), Bare("main")) # {}
    /\ all_specific_callers = {<<APath, Bare("h")>>, <<APath, Bare("main")>>}
    /\ all_context_files = {}
    /\ DOMAIN scans = {Bare("main"), Bare("h")}

(* C27: seed order.  In the first collect of an engine instance, the first
   pair that the forward traversal dequeues and marks processed is the start
   pair, whatever specific callers and context files the reverse search
   returned. *)
C27_StartFirst ==
    (calls = 1 /\ first_dequeued # <<>>) => first_dequeued = start

C27_Witness ==
    /\ calls = 1
    /\ pc = "forward"
    /\ first_dequeued = start
    /\ processed_items = {start}
    /\ all_specific_callers \ {start} # {}
    /\ all_context_files # {}

(* C28: a dequeued pair whose key is absent from the function table of its
   file.  The step that dequeues such a pair, not yet processed, marks it
   processed, leaves CollectedCode as it is and appends nothing to the
   queue. *)
C28_AbsentKeySkipped ==
    [][(/\ pc = "forward"
        /\ queue # <<>>
        /\ Head(queue) \notin processed_items
        /\ Head(queue)[2] \notin Keys(OwnAnalysis(project, Head(queue)[1]))) =>
          /\ processed_items' = processed_items \cup {Head(queue)}
          /\ collected_code' = collected_code
          /\ queue' = Tail(queue)]_vars

\* main of a.py calls u.h(); the project-wide search finds the method h of
\* class L in b.py by its key L.h and, by its def line, under the name h
C28_Witness ==
    /\ Done
    /\ calls = 1
    /\ project = <<AQual, BMethods>>
    /\ start = <<APath, Bare("main")>>
    /\ Bare("h") \notin Keys(OwnAnalysis(project, BPath))
    /\ {<<BPath, Bare("h")>>, <<BPath, Name("L", "h")>>} \subseteq processed_items
    /\ Cardinality({d \in processed_items : d[1] = BPath}) = 3
    /\ Cardinality(collected_code[BPath]) = 2

(* C29: an unresolvable call.  When a function is expanded, its snippet is
   recorded and its call sites are resolved in source order; a call with no
   definition (none in the same file for an unqualified call, none in the
   project for a qualified call) appends nothing, so that the queue after
   the step is the queue the other call sites alone give. *)
C29_UnresolvableDropped ==
    [][(pc = "forward" /\ pc' = "forward" /\ Expands(project, Fwd)) =>
          LET file == Head(queue)[1]
              Local(c) == \E k \in DOMAIN FileAt(project, file).defs :
                              LET key == Name(FileAt(project, file).defs[k].cls,
                                              FileAt(project, file).defs[k].name)
                              IN key = Bare(c.name) \/ EndsWithDot(key, Bare(c.name))
              Resolvable(c) == IF c.module = "" THEN Local(c)
                               ELSE FindDefinitionGrep(project, inventory, Bare(c.name)) # <<>>
          IN /\ SourceOf(project, Head(queue)) \in collected_code'[file]
             /\ processed_items' = processed_items \cup {Head(queue)}
             /\ queue' = ResolveCalls(project, inventory, file, OwnAnalysis(project, file),
                                      SelectSeq(CallsOf(project, Head(queue)), Resolvable),
                                      Tail(queue), processed_items')]_vars

\* main of a.py calls u.g(), m() and helper(): only helper has a definition
C29_Witness ==
    /\ pc = "forward"
    /\ calls = 1
    /\ project = <<ADrop>>
    /\ processed_items = {<<APath, Bare("main")>>}
    /\ queue = <<(<<APath, Bare("helper")>>)>>
    /\ collected_code[APath] = {SourceOf(project, <<APath, Bare("main")>>)}

(* C30: seeds include the callers.  During the forward traversal every
   specific caller the reverse search returned is in the queue or already
   processed, and when collect has returned the output holds the source of
   every specific caller whose key is in the function table of its file. *)
C30_CallersSeeded ==
    /\ pc = "forward" =>
          \A d \in all_specific_callers : Contains(queue, d) \/ d \in processed_items
    /\ Done =>
          \A d \in all_specific_callers :
              d[2] \in Keys(OwnAnalysis(project, d[1])) => InText(output, project, d)

C30_Witness ==
    /\ Done
    /\ calls = 1
    /\ \E d \in all_specific_callers :
          /\ d[1] # start[1]
          /\ d[2] \in Keys(OwnAnalysis(project, d[1]))
          /\ InText(output, project, d)

(* C31: accumulation across calls.  On one engine instance no step, within
   a collect call or from one call to the next, removes a pair from the
   processed set or a snippet from CollectedCode, and the output of each
   collect call holds every (file, snippet) pair of the outputs of the
   earlier calls. *)
C31_Accumulates ==
    [][/\ processed_items \subseteq processed_items'
       /\ \A p \in DOMAIN collected_code :
             p \in DOMAIN collected_code' /\ collected_code[p] \subseteq collected_code'[p]
       /\ \A i, j \in DOMAIN history' :
             i < j => Pairs(history'[i].output) \subseteq Pairs(history'[j].output)]_vars

\* A second call on the instance has returned more than the first, the
\* pairs of the first included
C31_Witness ==
    /\ Done
    /\ Len(history) = 2
    /\ history[1].start # history[2].start
    /\ Pairs(history[1].output) # {}
    /\ Pairs(history[1].output) \subseteq Pairs(output)
    /\ Pairs(history[1].output) # Pairs(output)

(* C32: collected implies processed.  In every state, every snippet of
   CollectedCode[file] is the source text of a key of the function table of
   that file whose pair (file, key) is in the processed set. *)
C32_CollectedProcessed ==
    \A file \in DOMAIN collected_code : \A snippet \in collected_code[file] :
        \E k \in Keys(OwnAnalysis(project, file)) :
            /\ snippet = SourceOf(project, <<file, k>>)
            /\ <<file, k>> \in processed_items

\* In the middle of a forward traversal, with snippets of two files stored
C32_Witness ==
    /\ pc = "forward"
    /\ queue # <<>>
    /\ Cardinality(DOMAIN collected_code) >= 2
    /\ \E file \in DOMAIN collected_code : Cardinality(collected_code[file]) >= 2

(* C33: empty output iff nothing collected.  When collect has returned, its
   output is the empty text exactly when CollectedCode holds no snippet, and
   every block of the output holds at least one snippet, none of them
   empty. *)
C33_EmptyIffNothing ==
    Done =>
        /\ output = <<>> <=> (\A file \in DOMAIN collected_code : collected_code[file] = {})
        /\ \A i \in DOMAIN output :
              /\ Len(output[i].body) >= 1
              /\ \A j \in DOMAIN output[i].body : output[i].body[j] # <<>>

\* collect for a start function that is not found and has no caller
C33_Witness ==
    /\ Done
    /\ calls = 1
    /\ start \in processed_items
    /\ DOMAIN collected_code = {}
    /\ output = <<>>

====
